---------------------------- MODULE Spec2Model ----------------------------
(***************************************************************************)
(* LoRALinear (torchtune/modules/peft/lora.py): a linear layer perturbed   *)
(* by a low-rank correction, x |-> linear(x) + (alpha/rank)*B(A(drop(x))). *)
(*                                                                         *)
(* Numbers are exact rationals <<n, d>> (d > 0, lowest terms), so that     *)
(* alpha / rank, the dropout rescale 1/(1-p) and the Kaiming bound are     *)
(* computed, not assumed.  A tensor is [shape, data] with data flattened   *)
(* row-major.  A missing bias is None.                                     *)
(***************************************************************************)
EXTENDS Integers, Sequences, FiniteSets, TLC

VARIABLES rank, alpha, out_dim, linear, dropout, lora_a, lora_b, training,
          op, x, mask, result, steps

vars == <<rank, alpha, out_dim, linear, dropout, lora_a, lora_b, training,
          op, x, mask, result, steps>>

-----------------------------------------------------------------------------
(* Bounds of the model.                                                    *)

MaxExternal == 1
MaxLeadDims == 1

RowCounts == {1, 2}

Dims == {1, 2}
Ranks == {0, 1, 2}
Seeds == {0, 1}
MaskSeeds == {0, 1, 2, 3}

-----------------------------------------------------------------------------
(* Exact arithmetic on rationals.                                          *)

Abs(n) == IF n < 0 THEN -n ELSE n

RECURSIVE GCD(_, _)
GCD(a, b) == IF b = 0 THEN a ELSE GCD(b, a % b)

Reduce(n, d, g) == <<n \div g, d \div g>>

Norm(n, d) ==
    IF d < 0 THEN Reduce(-n, -d, GCD(Abs(n), -d)) ELSE Reduce(n, d, GCD(Abs(n), d))

R(n, d) == Norm(n, d)
Zero == <<0, 1>>
One == <<1, 1>>

RAdd(a, b) == Norm(a[1] * b[2] + b[1] * a[2], a[2] * b[2])
RNeg(a) == <<-a[1], a[2]>>
RSub(a, b) == RAdd(a, RNeg(b))
RMul(a, b) == Norm(a[1] * b[1], a[2] * b[2])
RDiv(a, b) == Norm(a[1] * b[2], a[2] * b[1])
RLeq(a, b) == a[1] * b[2] <= b[1] * a[2]

-----------------------------------------------------------------------------
(* Tensors.                                                                *)

(* None (an absent bias, no input, no output): no tensor has this form.    *)
None == [shape |-> <<>>, data |-> <<>>]

RECURSIVE Prod(_)
Prod(s) == IF s = <<>> THEN 1 ELSE Head(s) * Prod(Tail(s))

Front(s) == SubSeq(s, 1, Len(s) - 1)
Last(s) == s[Len(s)]

Tensor(shape, data) == [shape |-> shape, data |-> data]
Numel(t) == Prod(t.shape)

Entry(t, r, c) == t.data[(r - 1) * Last(t.shape) + c]

-----------------------------------------------------------------------------
(* The random generator: a seed selects where a cyclic stream of samples   *)
(* starts; a fill consumes the stream in row-major order.  uniform_(-b, b) *)
(* yields the grid values v with v^2 <= b^2.                               *)

Grid == <<R(1, 2), R(-1, 1), R(-1, 2), R(1, 1), R(2, 1)>>

InBound(v, boundSq) == RLeq(RMul(v, v), boundSq)

UniformSamples(boundSq) == SelectSeq(Grid, LAMBDA v : InBound(v, boundSq))

Uniform(seed, k, boundSq) ==
    LET s == UniformSamples(boundSq)
    IN  IF Len(s) = 0 THEN Zero ELSE s[((seed + k) % Len(s)) + 1]

UniformFill(shape, seed, offset, boundSq) ==
    Tensor(shape, [k \in 1..Prod(shape) |-> Uniform(seed, offset + k - 1, boundSq)])

(* nn.init.zeros_ *)
Zeros(shape) == Tensor(shape, [k \in 1..Prod(shape) |-> Zero])

(* math.sqrt(5) ** 2, the squared negative slope handed to kaiming_uniform_ *)
SlopeSq == 5

(* nn.init.kaiming_uniform_(t, a): bound = sqrt(3) * sqrt(2 / (1 + a^2)) / *)
(* sqrt(fan_in) with fan_in = t.shape[1]; bound^2 = 6 / ((1 + a^2) fan_in). *)
(* A zero-element tensor is left alone.                                    *)
KaimingBoundSq(fan_in, aSq) == RDiv(R(6, 1), R((1 + aSq) * fan_in, 1))

KaimingUniform(t, aSq, seed, offset) ==
    IF Numel(t) = 0 THEN t
    ELSE UniformFill(t.shape, seed, offset, KaimingBoundSq(t.shape[2], aSq))

(* nn.Linear(in_features, out_features, bias): weight (out, in) filled by  *)
(* kaiming_uniform_(a = sqrt(5)), bias (out) uniform in +-1/sqrt(fan_in),  *)
(* bound 0 when fan_in = 0; bias is None when disabled.                    *)
BiasBoundSq(fan_in) == IF fan_in > 0 THEN R(1, fan_in) ELSE Zero

NewLinear(in_features, out_features, bias, seed, offset) ==
    [in_features  |-> in_features,
     out_features |-> out_features,
     weight |-> KaimingUniform(Zeros(<<out_features, in_features>>), 5, seed, offset),
     bias   |-> IF bias
                THEN UniformFill(<<out_features>>, seed,
                                 offset + out_features * in_features,
                                 BiasBoundSq(in_features))
                ELSE None]

LinearNumel(in_features, out_features, bias) ==
    out_features * in_features + (IF bias THEN out_features ELSE 0)

-----------------------------------------------------------------------------
(* The numeric primitives forward calls.                                   *)

RECURSIVE Dot(_, _, _, _, _)
Dot(a, ao, b, bo, n) ==
    IF n = 0 THEN Zero
    ELSE RAdd(Dot(a, ao, b, bo, n - 1), RMul(a[ao + n], b[bo + n]))

(* F.linear(x, weight, bias) raises unless x has a trailing dimension      *)
(* equal to weight.shape[1].                                               *)
LinearShapeOk(t, m) == Len(t.shape) >= 1 /\ Last(t.shape) = m.weight.shape[2]

(* Variant: the leading dimensions are flattened and not restored.         *)
LinearApplyFlat(m, t) ==
    LET nin   == m.weight.shape[2]
        nout  == m.weight.shape[1]
        rows  == Prod(Front(t.shape))
    IN  Tensor(<<rows, nout>>,
               [k \in 1..(rows * nout) |->
                   LET r == (k - 1) \div nout
                       j == ((k - 1) % nout) + 1
                       d == Dot(t.data, r * nin, m.weight.data, (j - 1) * nin, nin)
                   IN  IF m.bias = None THEN d ELSE RAdd(d, m.bias.data[j])])

LinearApply(m, t) ==
    LET nin   == m.weight.shape[2]
        nout  == m.weight.shape[1]
        shape == Front(t.shape) \o <<nout>>
    IN  Tensor(shape,
               [k \in 1..Prod(shape) |->
                   LET r == (k - 1) \div nout
                       j == ((k - 1) % nout) + 1
                       d == Dot(t.data, r * nin, m.weight.data, (j - 1) * nin, nin)
                   IN  IF m.bias = None THEN d ELSE RAdd(d, m.bias.data[j])])

(* nn.Dropout(p): in evaluation mode no mask is drawn and the input is     *)
(* returned; in training mode element k is kept and rescaled by 1/(1-p),   *)
(* or zeroed.                                                              *)
(* The Bernoulli(1 - p) mask a seed yields: with p = 0 every element is    *)
(* kept; otherwise the seed's two bits repeat over the elements.           *)
Bernoulli(p, seed, n) ==
    [k \in 1..n |-> p = Zero \/ (seed \div (2 ^ ((k - 1) % 2))) % 2 = 1]

(* Variant: the mask is drawn whatever the mode.                           *)
DrawAlways(d, train, seed, n) == Bernoulli(d.p, seed, n)

Draw(d, train, seed, n) == IF train THEN Bernoulli(d.p, seed, n) ELSE <<>>

DropoutApply(d, t, keep) ==
    IF keep = <<>> THEN t
    ELSE Tensor(t.shape,
                [k \in 1..Len(t.data) |->
                    IF keep[k] THEN RMul(t.data[k], RDiv(One, RSub(One, d.p)))
                    ELSE Zero])

Scale(c, t) == Tensor(t.shape, [k \in 1..Len(t.data) |-> RMul(c, t.data[k])])

Add(s, t) == Tensor(s.shape, [k \in 1..Len(s.data) |-> RAdd(s.data[k], t.data[k])])

-----------------------------------------------------------------------------
(* LoRALinear.                                                             *)

Alphas == {R(3, 1)}
Probs == {Zero, R(1, 2)}

(* Variant: the reset zeroes the bias of lora_b along with its weight.      *)
ResetBAll(m) ==
    [m EXCEPT !.weight = Zeros(m.weight.shape),
              !.bias = IF m.bias = None THEN None ELSE Zeros(m.bias.shape)]

(* Variant: kaiming_uniform_ called without a = sqrt(5) (its default a = 0). *)
ResetADefaultSlope(m, seed, offset) ==
    [m EXCEPT !.weight = KaimingUniform(m.weight, 0, seed, offset)]

(* reset_lora_parameters: zeros_(lora_b.weight), then                      *)
(* kaiming_uniform_(lora_a.weight, a = sqrt(5)).                           *)
ResetB(m) == [m EXCEPT !.weight = Zeros(m.weight.shape)]

ResetA(m, seed, offset) ==
    [m EXCEPT !.weight = KaimingUniform(m.weight, SlopeSq, seed, offset)]

(* __init__: the three nn.Linear and the nn.Dropout, then the reset.  The  *)
(* generator is consumed in construction order.                            *)
Construct(in_dim, o, r, a, p, use_bias, use_bias_in_lora_matrices, seed) ==
    LET n1 == LinearNumel(in_dim, o, use_bias)
        n2 == n1 + LinearNumel(in_dim, r, use_bias_in_lora_matrices)
        n3 == n2 + LinearNumel(r, o, use_bias_in_lora_matrices)
    IN  [rank    |-> r,
         alpha   |-> a,
         out_dim |-> o,
         linear  |-> NewLinear(in_dim, o, use_bias, seed, 0),
         dropout |-> [p |-> p],
         lora_a  |-> ResetA(NewLinear(in_dim, r, use_bias_in_lora_matrices, seed, n1),
                            seed, n3),
         lora_b  |-> ResetB(NewLinear(r, o, use_bias_in_lora_matrices, seed, n2))]

Self == [rank |-> rank, alpha |-> alpha, out_dim |-> out_dim, linear |-> linear,
         dropout |-> dropout, lora_a |-> lora_a, lora_b |-> lora_b,
         training |-> training]

Raised(e) == [err |-> e, out |-> None]
Returned(t) == [err |-> "none", out |-> t]

(* Variant: the scale multiplies lora_b's matrix product but not its bias. *)
AddBias(t, bias) ==
    IF bias = None THEN t
    ELSE Tensor(t.shape,
                [k \in 1..Len(t.data) |->
                    RAdd(t.data[k], bias.data[((k - 1) % Len(bias.data)) + 1])])

LoraOutBiasUnscaled(self, t, keep) ==
    LET dropped == DropoutApply(self.dropout, t, keep)
    IN  IF ~LinearShapeOk(dropped, self.lora_a) THEN Raised("RuntimeError")
        ELSE LET lora_out == LinearApply(self.lora_a, dropped)
             IN  IF self.rank = 0 THEN Raised("ZeroDivisionError")
                 ELSE IF ~LinearShapeOk(lora_out, self.lora_b)
                      THEN Raised("RuntimeError")
                 ELSE Returned(AddBias(
                         Scale(RDiv(self.alpha, R(self.rank, 1)),
                               LinearApply([self.lora_b EXCEPT !.bias = None], lora_out)),
                         self.lora_b.bias))

(* Variant: the scale is alpha, not alpha / rank.                          *)
LoraOutNoRank(self, t, keep) ==
    LET dropped == DropoutApply(self.dropout, t, keep)
    IN  IF ~LinearShapeOk(dropped, self.lora_a) THEN Raised("RuntimeError")
        ELSE LET lora_out == LinearApply(self.lora_a, dropped)
             IN  IF self.rank = 0 THEN Raised("ZeroDivisionError")
                 ELSE IF ~LinearShapeOk(lora_out, self.lora_b)
                      THEN Raised("RuntimeError")
                 ELSE Returned(Scale(self.alpha, LinearApply(self.lora_b, lora_out)))

(* forward, line by line.  alpha / rank is evaluated before lora_b is      *)
(* called and raises ZeroDivisionError when rank = 0.                      *)
LoraOut(self, t, keep) ==
    LET dropped == DropoutApply(self.dropout, t, keep)
    IN  IF ~LinearShapeOk(dropped, self.lora_a) THEN Raised("RuntimeError")
        ELSE LET lora_out == LinearApply(self.lora_a, dropped)
             IN  IF self.rank = 0 THEN Raised("ZeroDivisionError")
                 ELSE IF ~LinearShapeOk(lora_out, self.lora_b)
                      THEN Raised("RuntimeError")
                 ELSE Returned(Scale(RDiv(self.alpha, R(self.rank, 1)),
                                     LinearApply(self.lora_b, lora_out)))

(* Variant: dropout is applied to the input of the base map as well.       *)
ForwardFnDropBase(self, t, keep) ==
    IF ~LinearShapeOk(t, self.linear) THEN Raised("RuntimeError")
    ELSE LET out == LinearApply(self.linear, DropoutApply(self.dropout, t, keep))
             lora_out == LoraOut(self, t, keep)
         IN  IF lora_out.err # "none" THEN lora_out
             ELSE Returned(Add(out, lora_out.out))

(* Variant: forward catches the primitive's error and raises its own.      *)
ForwardFnTranslate(self, t, keep) ==
    IF ~LinearShapeOk(t, self.linear) THEN Raised("ValueError")
    ELSE LET out == LinearApply(self.linear, t)
             lora_out == LoraOut(self, t, keep)
         IN  IF lora_out.err # "none" THEN lora_out
             ELSE Returned(Add(out, lora_out.out))

(* return out + lora_out, unless computing lora_out raised *)
Return(out, lora_out) ==
    IF lora_out.err # "none" THEN lora_out ELSE Returned(Add(out, lora_out.out))

ForwardFn(self, t, keep) ==
    IF ~LinearShapeOk(t, self.linear) THEN Raised("RuntimeError")
    ELSE Return(LinearApply(self.linear, t), LoraOut(self, t, keep))

-----------------------------------------------------------------------------
(* Inputs of forward.                                                      *)

XGrid == <<R(1, 1), R(-2, 1), R(3, 1)>>

LeadShapes ==
    {s \in UNION {[1..n -> RowCounts] : n \in 0..MaxLeadDims} : Prod(s) \in RowCounts}

Inputs ==
    {Tensor(lead \o <<d>>,
            [k \in 1..(Prod(lead) * d) |-> XGrid[((k - 1) % Len(XGrid)) + 1]]) :
        lead \in LeadShapes, d \in Dims}

(* The masks dropout can draw for an input: none in evaluation mode. *)
Masks(t) == {Draw(dropout, training, seed, Len(t.data)) : seed \in MaskSeeds}

-----------------------------------------------------------------------------
(* The state machine.                                                      *)

Init ==
    \E in_dim \in Dims, o \in Dims, r \in Ranks, a \in Alphas, p \in Probs,
       use_bias \in BOOLEAN, use_bias_in_lora_matrices \in BOOLEAN, seed \in Seeds :
        LET self == Construct(in_dim, o, r, a, p, use_bias,
                              use_bias_in_lora_matrices, seed)
        IN  /\ rank = self.rank
            /\ alpha = self.alpha
            /\ out_dim = self.out_dim
            /\ linear = self.linear
            /\ dropout = self.dropout
            /\ lora_a = self.lora_a
            /\ lora_b = self.lora_b
            /\ training = TRUE
            /\ op = "init"
            /\ x = None
            /\ mask = <<>>
            /\ result = Raised("none")
            /\ steps = 0

NoCall == /\ x' = None /\ mask' = <<>> /\ result' = Raised("none")

ResetLoraParameters(seed) ==
    /\ lora_b' = ResetB(lora_b)
    /\ lora_a' = ResetA(lora_a, seed, 0)
    /\ op' = "reset"
    /\ NoCall
    /\ UNCHANGED <<rank, alpha, out_dim, linear, dropout, training, steps>>

(* Variant: forward folds the scale into alpha in place.                   *)
ForwardRescaling(t, keep) ==
    /\ x' = t
    /\ mask' = keep
    /\ result' = ForwardFn(Self, t, keep)
    /\ op' = "forward"
    /\ alpha' = IF rank = 0 THEN alpha ELSE RDiv(alpha, R(rank, 1))
    /\ UNCHANGED <<rank, out_dim, linear, dropout, lora_a, lora_b, training, steps>>

Forward(t, keep) ==
    /\ x' = t
    /\ mask' = keep
    /\ result' = ForwardFn(Self, t, keep)
    /\ op' = "forward"
    /\ UNCHANGED <<rank, alpha, out_dim, linear, dropout, lora_a, lora_b,
                   training, steps>>

(* nn.Module.train(mode); eval() is train(False). *)
Train(mode) ==
    /\ training' = mode
    /\ op' = "train"
    /\ NoCall
    /\ UNCHANGED <<rank, alpha, out_dim, linear, dropout, lora_a, lora_b, steps>>

(* The parameter surface: the tensors an optimizer or a checkpoint loader  *)
(* addresses by name.                                                      *)
BaseNames == {"linear.weight", "linear.bias"}
LoraNames == {"lora_a.weight", "lora_a.bias", "lora_b.weight", "lora_b.bias"}
AllNames == BaseNames \cup LoraNames

CkptGrid == <<R(2, 1), R(-1, 1), R(1, 2)>>
GradGrid == <<R(1, 1), R(-1, 2)>>

External(t, grid) ==
    Tensor(t.shape, [k \in 1..Len(t.data) |-> grid[((k - 1) % Len(grid)) + 1]])

(* A checkpoint loader overwrites the named tensors that exist.            *)
Loaded(name, names, t) ==
    IF name \in names /\ t # None THEN External(t, CkptGrid) ELSE t

LoadInto(m, prefix, names) ==
    [m EXCEPT !.weight = Loaded(prefix \o ".weight", names, m.weight),
              !.bias   = Loaded(prefix \o ".bias", names, m.bias)]

(* An optimizer step adds an update to the named tensors that exist.       *)
Stepped(name, names, t) ==
    IF name \in names /\ t # None THEN Add(t, External(t, GradGrid)) ELSE t

StepInto(m, prefix, names) ==
    [m EXCEPT !.weight = Stepped(prefix \o ".weight", names, m.weight),
              !.bias   = Stepped(prefix \o ".bias", names, m.bias)]

LoadStateDict(names) ==
    /\ steps < MaxExternal
    /\ linear' = LoadInto(linear, "linear", names)
    /\ lora_a' = LoadInto(lora_a, "lora_a", names)
    /\ lora_b' = LoadInto(lora_b, "lora_b", names)
    /\ steps' = steps + 1
    /\ op' = "load"
    /\ NoCall
    /\ UNCHANGED <<rank, alpha, out_dim, dropout, training>>

OptimizerStep(names) ==
    /\ steps < MaxExternal
    /\ linear' = StepInto(linear, "linear", names)
    /\ lora_a' = StepInto(lora_a, "lora_a", names)
    /\ lora_b' = StepInto(lora_b, "lora_b", names)
    /\ steps' = steps + 1
    /\ op' = "step"
    /\ NoCall
    /\ UNCHANGED <<rank, alpha, out_dim, dropout, training>>

Next ==
    \/ \E seed \in Seeds : ResetLoraParameters(seed)
    \/ \E t \in Inputs : \E keep \in Masks(t) : Forward(t, keep)
    \/ \E mode \in BOOLEAN : Train(mode)
    \/ LoadStateDict(BaseNames)
    \/ OptimizerStep(LoraNames)

Spec == Init /\ [][Next]_vars

-----------------------------------------------------------------------------
(* The contract's terms, written out from its formulas.                    *)

RECURSIVE SumSeq(_)
SumSeq(s) == IF Len(s) = 0 THEN Zero ELSE RAdd(Head(s), SumSeq(Tail(s)))

(* t @ W^T + b, over the trailing dimension of t *)
Affine(W, b, t) ==
    LET nin  == W.shape[2]
        nout == W.shape[1]
        rows == Prod(Front(t.shape))
    IN  Tensor(Front(t.shape) \o <<nout>>,
               [k \in 1..(rows * nout) |->
                   LET r == ((k - 1) \div nout) + 1
                       j == ((k - 1) % nout) + 1
                   IN  RAdd(SumSeq([i \in 1..nin |-> RMul(Entry(t, r, i), Entry(W, j, i))]),
                            IF b = None THEN Zero ELSE b.data[j])])

BaseMap(t) == Affine(linear.weight, linear.bias, t)
CorrectionA(t) == Affine(lora_a.weight, lora_a.bias, t)
CorrectionB(t) == Affine(lora_b.weight, lora_b.bias, t)

(* Dropout(x, p) with the mask the call drew *)
Dropout(t) ==
    IF ~training THEN t
    ELSE Tensor(t.shape,
                [k \in 1..Len(t.data) |->
                    IF mask[k] THEN RDiv(t.data[k], RSub(One, dropout.p)) ELSE Zero])

Times(c, t) == Tensor(t.shape, [k \in 1..Len(t.data) |-> RMul(c, t.data[k])])
Plus(s, t) == Tensor(s.shape, [k \in 1..Len(s.data) |-> RAdd(s.data[k], t.data[k])])
Minus(s, t) == Tensor(s.shape, [k \in 1..Len(s.data) |-> RSub(s.data[k], t.data[k])])

IsZero(t) == \A k \in 1..Len(t.data) : t.data[k] = Zero

Called == op = "forward"
ShapeOk == Len(x.shape) >= 1 /\ Last(x.shape) = linear.in_features
Returns == Called /\ rank >= 1 /\ ShapeOk
ScaleFactor == RDiv(alpha, R(rank, 1))
Correction == Times(ScaleFactor, CorrectionB(CorrectionA(Dropout(x))))

Config == <<rank, alpha, out_dim, dropout>>
Params == <<linear, lora_a, lora_b>>

-----------------------------------------------------------------------------
(* C1: before any external weight update, forward(x) = BaseMap(x) for      *)
(* every correctly shaped x and every configuration with rank >= 1,        *)
(* whatever the bias flags.                                                *)
ZeroCorrectionAtInit ==
    (Returns /\ steps = 0) => (result.err = "none" /\ result.out = BaseMap(x))

(* C2: forward(x) - BaseMap(x) = (alpha / rank) *                          *)
(* CorrectionB(CorrectionA(Dropout(x))), the scale multiplying the bias of *)
(* B too, for every reachable weight configuration.                        *)
Additivity ==
    Returns => (result.err = "none" /\ Minus(result.out, BaseMap(x)) = Correction)

AdditivityWitness ==
    /\ Returns /\ steps > 0 /\ training /\ dropout.p # Zero
    /\ lora_b.bias # None
    /\ \E k \in 1..Len(mask) : ~mask[k]
    /\ \E k \in 1..Len(mask) : mask[k]
    /\ ~IsZero(Correction)
    /\ rank = 2

(* C3: the weights have shapes (out_dim, in_dim), (rank, in_dim) and       *)
(* (out_dim, rank), and forward maps an input of shape (..., in_dim) to an *)
(* output of shape (..., out_dim) with the same leading dimensions.          *)
ShapeContract ==
    /\ linear.weight.shape = <<out_dim, linear.in_features>>
    /\ lora_a.weight.shape = <<rank, linear.in_features>>
    /\ lora_b.weight.shape = <<out_dim, rank>>
    /\ Returns => /\ result.err = "none"
                  /\ result.out.shape = Front(x.shape) \o <<out_dim>>
                  /\ Len(result.out.data) = Prod(Front(x.shape)) * out_dim

ShapeContractWitness ==
    /\ Returns /\ result.err = "none"
    /\ Len(x.shape) = MaxLeadDims + 1
    /\ x.shape[1] = 2
    /\ linear.in_features # out_dim
    /\ rank # out_dim

(* C4: when reset_lora_parameters returns, at construction or later, every *)
(* entry of B's weight is 0 and every entry v of A's weight has            *)
(* v^2 <= 1 / in_dim.                                                      *)
ResetPostcondition ==
    op \in {"init", "reset"} =>
        /\ IsZero(lora_b.weight)
        /\ \A k \in 1..Len(lora_a.weight.data) :
              RLeq(RMul(lora_a.weight.data[k], lora_a.weight.data[k]),
                   R(1, linear.in_features))

ResetPostconditionWitness ==
    /\ op = "reset" /\ steps > 0 /\ rank >= 1
    /\ linear.in_features = 2
    /\ lora_b.bias # None
    /\ \E k \in 1..Len(lora_b.bias.data) :
          ~RLeq(RMul(lora_b.bias.data[k], lora_b.bias.data[k]), One)

(* C5: a forward call leaves the six parameter tensors and the             *)
(* configuration unchanged; parameters change only by a reset or an        *)
(* external load or optimizer step.                                        *)
ForwardNoSideEffects ==
    [][/\ op' = "forward" => (Params' = Params /\ Config' = Config)
       /\ Params' # Params => op' \in {"reset", "load", "step"}]_vars

ForwardNoSideEffectsWitness ==
    /\ Returns /\ result.err = "none" /\ steps > 0
    /\ training /\ dropout.p # Zero

(* C6: with dropout probability 0 and the weights fixed, multiplying alpha *)
(* by c multiplies forward(x) - BaseMap(x) by c; BaseMap(x) does not       *)
(* depend on alpha.                                                        *)
AlphaFactors == {R(2, 1), R(3, 1), R(1, 2)}

ScalingLinearity ==
    (Returns /\ dropout.p = Zero) =>
        \A c \in AlphaFactors :
            LET scaled == ForwardFn([Self EXCEPT !.alpha = RMul(c, alpha)], x, mask)
            IN  /\ scaled.err = "none"
                /\ Minus(scaled.out, BaseMap(x)) = Times(c, Minus(result.out, BaseMap(x)))

ScalingLinearityWitness ==
    /\ Returns /\ dropout.p = Zero /\ result.err = "none"
    /\ lora_b.bias # None
    /\ ~IsZero(lora_b.weight)
    /\ ~IsZero(Minus(result.out, BaseMap(x)))

(* C7: in evaluation mode two forward calls with the same input and the    *)
(* same weights return the same output.                                    *)
EvalDeterminism ==
    [][(op = "forward" /\ op' = "forward" /\ ~training /\ ~training'
        /\ x' = x /\ Params' = Params /\ Config' = Config) => result' = result]_vars

EvalDeterminismWitness ==
    /\ Returns /\ result.err = "none" /\ ~training
    /\ dropout.p # Zero /\ steps > 0

(* C8, as stated: forward fails exactly on a shape mismatch, with the      *)
(* primitive's error, for every layer construction produces.               *)
ForwardFailsOnlyOnShape ==
    Called => /\ (result.err = "none") <=> ShapeOk
              /\ result.err \in {"none", "RuntimeError"}

(* C8, amended: for rank # 0 forward fails exactly on a shape mismatch,    *)
(* with the primitive's error, no output and nothing changed; a layer      *)
(* built with rank = 0 raises ZeroDivisionError on a well-shaped input.    *)
ForwardErrors ==
    [][op' = "forward" =>
        /\ rank' # 0 => /\ (result'.err = "none") <=> ShapeOk'
                        /\ result'.err \in {"none", "RuntimeError"}
        /\ rank' = 0 => result'.err = (IF ShapeOk' THEN "ZeroDivisionError"
                                        ELSE "RuntimeError")
        /\ result'.err # "none" =>
              (result'.out = None /\ Params' = Params /\ Config' = Config)]_vars

ForwardErrorsWitness ==
    /\ Called /\ rank >= 1 /\ ~ShapeOk
    /\ result.err = "RuntimeError" /\ result.out = None

(* C9: reset_lora_parameters changes only the weights of A and B; a load   *)
(* of the base map leaves A and B as they were.                            *)
ResetFrame ==
    [][/\ op' = "reset" => /\ linear' = linear
                           /\ lora_a'.bias = lora_a.bias
                           /\ lora_b'.bias = lora_b.bias
                           /\ Config' = Config
       /\ op' = "load" => (lora_a' = lora_a /\ lora_b' = lora_b)]_vars

ResetFrameWitness ==
    /\ op = "reset" /\ steps > 0 /\ rank >= 1
    /\ linear.weight = External(linear.weight, CkptGrid)
    /\ lora_b.bias # None /\ ~IsZero(lora_b.bias)
    /\ IsZero(lora_b.weight)

(* C10: the mode touches only the dropout of A's input: the base term is   *)
(* BaseMap of the undropped x in both modes, training with p = 0 equals    *)
(* evaluation, and so does training with B's weight zero and no            *)
(* correction biases, whatever the mask.                                   *)
EvalResult == ForwardFn(Self, x, Draw(dropout, FALSE, 0, Len(x.data)))

ModeOnlyDropout ==
    Returns =>
        /\ result.err = "none"
        /\ Minus(result.out, Correction) = BaseMap(x)
        /\ ~training => result.out = Plus(BaseMap(x),
                                          Times(ScaleFactor, CorrectionB(CorrectionA(x))))
        /\ (training /\ dropout.p = Zero) => result = EvalResult
        /\ (training /\ IsZero(lora_b.weight) /\ lora_a.bias = None
              /\ lora_b.bias = None) => result = EvalResult

ModeOnlyDropoutWitness ==
    /\ Returns /\ training /\ dropout.p # Zero
    /\ \E k \in 1..Len(mask) : ~mask[k]
    /\ IsZero(lora_b.weight) /\ lora_a.bias = None /\ lora_b.bias = None
    /\ ~IsZero(result.out)
    /\ result = EvalResult

=============================================================================
